---- MODULE Spec2Model ----
(***************************************************************************)
(* Retrieval core of the second-brain pipeline:                            *)
(*   scripts/load_csv.py         normalize_whitespace, load_notes          *)
(*   scripts/chunk_notes.py      chunk_text, chunk_notes                   *)
(*   scripts/build_embeddings.py generate_embeddings                       *)
(*   scripts/retrieve.py         Retriever.__init__, Retriever.retrieve    *)
(*   app/cli.py                  RAGSystem.query                           *)
(* Texts are sequences of one-character strings.  Each component has its   *)
(* own specification over the shared variables; the variables of the       *)
(* components a specification does not run keep their idle values.         *)
(***************************************************************************)
EXTENDS Integers, Sequences, FiniteSets, TLC

VARIABLES
    \* chunk_text(text, chunk_size, overlap): arguments, locals, position
    text, chunk_size, overlap, start, chunks, ct_pc,
    \* chunk_notes(): the CSV rows, the cleaned frame, loop locals, output
    csv, df, row, note_chunks, chunk_idx, chunked_data, chunk_id, cn_pc,
    \* durable storage: CHUNKED_NOTES_FILE, FAISS_INDEX_FILE, CHUNK_METADATA_FILE
    chunked_notes_file, faiss_index_file, chunk_metadata_file,
    \* generate_embeddings(): locals and position
    ge_chunks, ge_i, embeddings_list, ge_index, ge_metadata, ge_pc,
    \* Retriever / RAGSystem.query: instance fields, position, last call
    self_index, self_metadata, self_model, rt_pc, call,
    \* normalize_whitespace(text) and normalize_whitespace of its result
    nw_text, nw_once, nw_twice, nw_pc

chunkVars == <<text, chunk_size, overlap, start, chunks, ct_pc>>
notesVars == <<csv, df, row, note_chunks, chunk_idx, chunked_data, chunk_id, cn_pc>>
diskVars  == <<chunked_notes_file, faiss_index_file, chunk_metadata_file>>
buildVars == <<ge_chunks, ge_i, embeddings_list, ge_index, ge_metadata, ge_pc>>
retrVars  == <<self_index, self_metadata, self_model, rt_pc, call>>
normVars  == <<nw_text, nw_once, nw_twice, nw_pc>>
vars == <<chunkVars, notesVars, diskVars, buildVars, retrVars, normVars>>

\* Python's None
None == "None"
\* a value read from a CSV cell that holds nothing (pd.isna)
Missing == <<None>>
\* a path on durable storage: no file there, or a file and what it holds
NoFile == [exists |-> FALSE]
File(c) == [exists |-> TRUE, content |-> c]
\* an attribute of an object under construction: not assigned yet, or its value
Unset == [set |-> FALSE]
Value(v) == [set |-> TRUE, value |-> v]

Min(a, b) == IF a <= b THEN a ELSE b
Max(a, b) == IF a >= b THEN a ELSE b

(***************************************************************************)
(* Bounds of the model and the program's constants.                        *)
(***************************************************************************)
MaxLen == 5          \* longest text drawn for chunk_text
MaxChunkSize == 4    \* largest chunk_size drawn for chunk_text
MaxOverlap == 4      \* largest overlap drawn (overlap >= chunk_size included)
MaxIter == 3         \* iterations allowed beyond len(text): caps a window that never advances
ExampleLen == 10000  \* the long text chunked with the configured defaults
CHUNK_SIZE == 512
CHUNK_OVERLAP == 50

Chars == {"a", "b"}
Texts == UNION {[1..n -> Chars] : n \in 0..MaxLen}
\* "a a a ..." of length n
LongText(n) == [i \in 1..n |-> IF i % 2 = 1 THEN "a" ELSE " "]

(***************************************************************************)
(* Python sequence slicing s[a:b]: negative bounds count from the end,     *)
(* every bound is clipped to [0, len(s)], an empty range gives "".         *)
(***************************************************************************)
ClipIndex(n, a) == IF a < 0 THEN Max(a + n, 0) ELSE Min(a, n)

Slice(s, a, b) ==
    LET lo == ClipIndex(Len(s), a)
        hi == ClipIndex(Len(s), b)
    IN  IF lo >= hi THEN << >> ELSE SubSeq(s, lo + 1, hi)

(***************************************************************************)
(* chunk_text (chunk_notes.py:18-48)                                       *)
(***************************************************************************)
\* end = start + chunk_size
WindowEnd(s, size) == s + size

NextStart_NoOverlap(end, ov) == end
NextStart_OneLess(end, ov) == end - ov + 1
\* start = end - overlap
NextStart(end, ov) == end - ov

FitsInOneChunk_Strict(t, size) == Len(t) < size
\* if len(text) <= chunk_size
FitsInOneChunk(t, size) == Len(t) <= size

\* the function's entry: the early return, or the loop's initialisation
ChunkTextCall ==
    /\ ct_pc = "call"
    /\ IF FitsInOneChunk(text, chunk_size)
         THEN /\ chunks' = <<text>>
              /\ ct_pc' = "done"
              /\ start' = start
         ELSE /\ chunks' = << >>
              /\ start' = 0
              /\ ct_pc' = "loop"
    /\ UNCHANGED <<text, chunk_size, overlap>>

\* one evaluation of the while condition and, when true, of the loop body
ChunkTextLoop ==
    /\ ct_pc = "loop"
    /\ Len(chunks) < Len(text) + MaxIter
    /\ IF start < Len(text)
         THEN LET end == WindowEnd(start, chunk_size)
                  chunk == Slice(text, start, end)
                  nxt == NextStart(end, overlap)
              IN  /\ chunks' = Append(chunks, chunk)
                  /\ start' = nxt
                  /\ ct_pc' = IF nxt >= Len(text) THEN "done" ELSE "loop"
         ELSE /\ ct_pc' = "done"
              /\ UNCHANGED <<chunks, start>>
    /\ UNCHANGED <<text, chunk_size, overlap>>

\* The function as a value: the same entry and loop body, run to the end.
RECURSIVE ChunkLoop(_, _, _, _, _)
ChunkLoop(t, size, ov, s, acc) ==
    IF s < Len(t)
      THEN LET end == WindowEnd(s, size)
               nxt == NextStart(end, ov)
               acc2 == Append(acc, Slice(t, s, end))
           IN  IF nxt >= Len(t) THEN acc2 ELSE ChunkLoop(t, size, ov, nxt, acc2)
      ELSE acc

ChunkText(t, size, ov) ==
    IF FitsInOneChunk(t, size) THEN <<t>> ELSE ChunkLoop(t, size, ov, 0, << >>)

(***************************************************************************)
(* normalize_whitespace and load_notes (load_csv.py:19-75)                 *)
(***************************************************************************)
\* the characters of the model that the regular expression \s and
\* str.strip() treat as whitespace
Whitespace == {" ", "\t", "\n"}
IsWs(c) == c \in Whitespace

CollapseWhitespace_PerCharacter(t) ==
    [i \in 1..Len(t) |-> IF IsWs(t[i]) THEN " " ELSE t[i]]
\* re.sub(r'\s+', ' ', text): every maximal whitespace run becomes one space
CollapseWhitespace(t) ==
    LET firsts == SelectSeq([i \in 1..Len(t) |-> i],
                      LAMBDA i : ~IsWs(t[i]) \/ i = 1 \/ ~IsWs(t[i - 1]))
    IN  [j \in 1..Len(firsts) |->
            IF IsWs(t[firsts[j]]) THEN " " ELSE t[firsts[j]]]

Strip_Identity(t) == t
\* text.strip(): without its leading and trailing whitespace
Strip(t) ==
    IF \A i \in 1..Len(t) : IsWs(t[i]) THEN << >>
    ELSE LET lo == CHOOSE i \in 1..Len(t) :
                      ~IsWs(t[i]) /\ \A j \in 1..(i - 1) : IsWs(t[j])
             hi == CHOOSE i \in 1..Len(t) :
                      ~IsWs(t[i]) /\ \A j \in (i + 1)..Len(t) : IsWs(t[j])
         IN  SubSeq(t, lo, hi)

\* normalize_whitespace(text); pd.isna(text) is text = Missing
normalize_whitespace(t) ==
    IF t = Missing \/ t = << >> THEN << >> ELSE Strip(CollapseWhitespace(t))

\* load_notes() on the rows of an existing CSV file with a text column: the
\* cleaned rows that are not empty, each under its label in the file
load_notes(rows) ==
    LET cleaned == [i \in 1..Len(rows) |->
                      [idx |-> i - 1,
                       text_clean |-> normalize_whitespace(rows[i].text),
                       created_at |-> rows[i].created_at,
                       modified_at |-> rows[i].modified_at]]
    IN  SelectSeq(cleaned, LAMBDA r : r.text_clean # << >>)

(***************************************************************************)
(* chunk_notes (chunk_notes.py:51-90)                                      *)
(***************************************************************************)
MaxNotes == 3        \* most rows of a CSV file

\* s repeated n times
Repeat(s, n) == [i \in 1..(n * Len(s)) |-> s[((i - 1) % Len(s)) + 1]]

ShortNote == <<"s", "h", "o", "r", "t", " ", "n", "o", "t", "e">>
\* the rows a CSV file is drawn from: notes of one, two and three chunks,
\* with and without timestamps, a blank note and a missing text
NoteRows ==
    { [text |-> ShortNote, created_at |-> "1651363200000000",
       modified_at |-> "1651449600000000"],
      [text |-> Repeat(<<"a", " ">>, 300), created_at |-> None,
       modified_at |-> None],
      [text |-> <<"\n">> \o Repeat(<<"b", " ", "\t">>, 480),
       created_at |-> "1651363200000000", modified_at |-> None],
      [text |-> <<" ", "\n", " ">>, created_at |-> None, modified_at |-> None],
      [text |-> Missing, created_at |-> "1651363200000000", modified_at |-> None] }

ChunkIdNext_Stuck(id) == id
\* chunk_id += 1
ChunkIdNext(id) == id + 1

\* chunk_dict = {...}
ChunkDict(id, r, idx, content, n) ==
    [chunk_id |-> id, original_index |-> r.idx, chunk_index |-> idx,
     text |-> content, created_at |-> r.created_at,
     modified_at |-> r.modified_at, total_chunks |-> n]

\* df = load_notes(); a missing CSV file raises FileNotFoundError
ChunkNotesLoad ==
    /\ cn_pc = "load"
    /\ IF ~csv.exists
         THEN /\ cn_pc' = "FileNotFoundError"
              /\ df' = df
         ELSE /\ df' = load_notes(csv.content)
              /\ cn_pc' = "rows"
    /\ UNCHANGED <<csv, row, note_chunks, chunk_idx, chunked_data, chunk_id,
                   chunked_notes_file>>

\* for idx, row in df.iterrows(): chunks = chunk_text(text)
ChunkNotesRow ==
    /\ cn_pc = "rows"
    /\ row < Len(df)
    /\ row' = row + 1
    /\ note_chunks' = ChunkText(df[row + 1].text_clean, CHUNK_SIZE, CHUNK_OVERLAP)
    /\ chunk_idx' = 0
    /\ cn_pc' = "chunks"
    /\ UNCHANGED <<csv, df, chunked_data, chunk_id, chunked_notes_file>>

\* for chunk_idx, chunk_content in enumerate(chunks): append, chunk_id += 1
ChunkNotesAppend ==
    /\ cn_pc = "chunks"
    /\ IF chunk_idx < Len(note_chunks)
         THEN /\ chunked_data' = Append(chunked_data,
                    ChunkDict(chunk_id, df[row], chunk_idx,
                              note_chunks[chunk_idx + 1], Len(note_chunks)))
              /\ chunk_id' = ChunkIdNext(chunk_id)
              /\ chunk_idx' = chunk_idx + 1
              /\ cn_pc' = cn_pc
         ELSE /\ cn_pc' = "rows"
              /\ UNCHANGED <<chunked_data, chunk_id, chunk_idx>>
    /\ UNCHANGED <<csv, df, row, note_chunks, chunked_notes_file>>

\* json.dump(chunked_data, f); return chunked_data
ChunkNotesSave ==
    /\ cn_pc = "rows"
    /\ row = Len(df)
    /\ chunked_notes_file' = File(chunked_data)
    /\ cn_pc' = "done"
    /\ UNCHANGED <<csv, df, row, note_chunks, chunk_idx, chunked_data, chunk_id>>

RowSeqs == UNION {[1..n -> NoteRows] : n \in 0..MaxNotes}

(***************************************************************************)
(* The embedding model (sentence-transformers) and str()                   *)
(***************************************************************************)
\* how many characters of t are c
Count(t, c) == Cardinality({i \in 1..Len(t) : t[i] = c})

\* model.encode of one text: a fixed function from texts to vectors of one
\* dimension, here the counts of "a" and of "b"
Encode(t) == <<Count(t, "a"), Count(t, "b")>>

EncodeAll_Reversed(ts) == [j \in 1..Len(ts) |-> Encode(ts[Len(ts) + 1 - j])]
\* model.encode(batch): one vector per text, in the order of the texts
EncodeAll(ts) == [j \in 1..Len(ts) |-> Encode(ts[j])]

Digits == <<"0", "1", "2", "3", "4", "5", "6", "7", "8", "9">>
\* str(n) of an integer: decimal digits, "-" before a negative one
RECURSIVE Str(_)
Str(n) ==
    IF n < 0 THEN "-" \o Str(-n)
    ELSE IF n < 10 THEN Digits[n + 1]
    ELSE Str(n \div 10) \o Digits[(n % 10) + 1]

(***************************************************************************)
(* generate_embeddings (build_embeddings.py:29-102)                        *)
(***************************************************************************)
MaxChunks == 70      \* most chunks of a chunk list
batch_size == 32

\* a chunk list as chunk_notes writes it: n chunks, chunk_id the position;
\* v varies the texts and the notes they come from
ChunkList(n, v) ==
    [i \in 1..n |->
        [chunk_id |-> i - 1,
         original_index |-> ((i - 1) \div 2) + v,
         chunk_index |-> (i - 1) % 2,
         text |-> Repeat(<<"a">>, (i + v) % 8) \o Repeat(<<"b">>, (i + v) \div 8),
         created_at |-> IF i % 3 = v THEN None ELSE "1651363200000000",
         modified_at |-> None,
         total_chunks |-> 2]]

\* texts = [chunk['text'] for chunk in chunks]
TextsOf(cs) == [i \in 1..Len(cs) |-> cs[i].text]

BatchTexts_OneShort(ts, i) == Slice(ts, i, i + batch_size - 1)
\* batch_texts = texts[i:i + batch_size]
BatchTexts(ts, i) == Slice(ts, i, i + batch_size)

\* np.vstack(embeddings_list): the rows of the batches, batch after batch
RECURSIVE VStack(_)
VStack(bs) == IF bs = << >> THEN << >> ELSE Head(bs) \o VStack(Tail(bs))

MetadataRecord_Position(i, chunk) ==
    [chunk_id |-> i, text |-> chunk.text,
     original_index |-> chunk.original_index,
     created_at |-> chunk.created_at, modified_at |-> chunk.modified_at]
\* the value of metadata[str(i)]
MetadataRecord(i, chunk) ==
    [chunk_id |-> chunk.chunk_id, text |-> chunk.text,
     original_index |-> chunk.original_index,
     created_at |-> chunk.created_at, modified_at |-> chunk.modified_at]

\* metadata = {str(i): {...} for i, chunk in enumerate(chunks)}
BuildMetadata(cs) ==
    [key \in {Str(i) : i \in 0..(Len(cs) - 1)} |->
        LET i == CHOOSE i \in 0..(Len(cs) - 1) : Str(i) = key
        IN  MetadataRecord(i, cs[i + 1])]

\* chunks = json.load(f); a missing chunk list raises FileNotFoundError
GenerateLoad ==
    /\ ge_pc = "load"
    /\ IF ~chunked_notes_file.exists
         THEN /\ ge_pc' = "FileNotFoundError"
              /\ ge_chunks' = ge_chunks
         ELSE /\ ge_chunks' = chunked_notes_file.content
              /\ ge_pc' = "encode"
    /\ UNCHANGED <<ge_i, embeddings_list, ge_index, ge_metadata, diskVars>>

\* for i in range(0, len(texts), batch_size): one batch encoded and appended
GenerateEncodeBatch ==
    /\ ge_pc = "encode"
    /\ ge_i < Len(ge_chunks)
    /\ embeddings_list' =
          Append(embeddings_list, EncodeAll(BatchTexts(TextsOf(ge_chunks), ge_i)))
    /\ ge_i' = ge_i + batch_size
    /\ UNCHANGED <<ge_chunks, ge_index, ge_metadata, ge_pc, diskVars>>

\* embeddings = np.vstack(embeddings_list); index.add(embeddings).
\* np.vstack of an empty list raises ValueError.
GenerateBuildIndex ==
    /\ ge_pc = "encode"
    /\ ge_i >= Len(ge_chunks)
    /\ IF embeddings_list = << >>
         THEN /\ ge_pc' = "ValueError"
              /\ ge_index' = ge_index
         ELSE /\ ge_index' = VStack(embeddings_list)
              /\ ge_pc' = "write_index"
    /\ UNCHANGED <<ge_chunks, ge_i, embeddings_list, ge_metadata, diskVars>>

\* faiss.write_index(index, str(FAISS_INDEX_FILE))
GenerateWriteIndex ==
    /\ ge_pc = "write_index"
    /\ faiss_index_file' = File(ge_index)
    /\ ge_pc' = "write_metadata"
    /\ UNCHANGED <<ge_chunks, ge_i, embeddings_list, ge_index, ge_metadata,
                   chunked_notes_file, chunk_metadata_file>>

\* metadata = {...}; json.dump(metadata, f); return index, metadata
GenerateWriteMetadata ==
    /\ ge_pc = "write_metadata"
    /\ ge_metadata' = BuildMetadata(ge_chunks)
    /\ chunk_metadata_file' = File(BuildMetadata(ge_chunks))
    /\ ge_pc' = "done"
    /\ UNCHANGED <<ge_chunks, ge_i, embeddings_list, ge_index,
                   chunked_notes_file, faiss_index_file>>

(***************************************************************************)
(* Retriever (retrieve.py:26-92) and RAGSystem.query (cli.py:167-217)      *)
(***************************************************************************)
MaxVectors == 3      \* most vectors of an index file drawn
MaxTopK == 4         \* largest top_k drawn
EMBEDDING_MODEL_NAME == "all-MiniLM-L6-v2"

NoCall == [op |-> "none"]
Queries == {<<"a">>, <<"b", "b", "a">>}
VectorPool == {<<1, 0>>, <<0, 2>>}
IndexContents == UNION {[1..n -> VectorPool] : n \in 0..MaxVectors}
\* metadata documents: any set of the keys "0".."MaxVectors", each key with
\* the record generate_embeddings writes for that slot of a chunk list (one
\* whose chunk_ids are not the slot numbers)
MetadataContents ==
    {[key \in keys |-> BuildMetadata(Tail(ChunkList(MaxVectors + 2, 1)))[key]] :
        keys \in SUBSET {Str(i) : i \in 0..MaxVectors}}

IndexFileMissing(f) == ~f.exists
MetadataFileMissing_Unchecked(f) == FALSE
MetadataFileMissing(f) == ~f.exists

\* if not FAISS_INDEX_FILE.exists(): raise FileNotFoundError
RetrieverCheckIndex ==
    /\ rt_pc = "init"
    /\ rt_pc' = IF IndexFileMissing(faiss_index_file)
                  THEN "FileNotFoundError" ELSE "check_metadata"
    /\ UNCHANGED <<self_index, self_metadata, self_model, call, diskVars>>

\* if not CHUNK_METADATA_FILE.exists(): raise FileNotFoundError
RetrieverCheckMetadata ==
    /\ rt_pc = "check_metadata"
    /\ rt_pc' = IF MetadataFileMissing(chunk_metadata_file)
                  THEN "FileNotFoundError" ELSE "load_index"
    /\ UNCHANGED <<self_index, self_metadata, self_model, call, diskVars>>

\* self.index = faiss.read_index(...); reading no file raises RuntimeError
RetrieverLoadIndex ==
    /\ rt_pc = "load_index"
    /\ IF faiss_index_file.exists
         THEN /\ self_index' = Value(faiss_index_file.content)
              /\ rt_pc' = "load_metadata"
         ELSE /\ rt_pc' = "RuntimeError"
              /\ self_index' = self_index
    /\ UNCHANGED <<self_metadata, self_model, call, diskVars>>

\* self.metadata = json.load(f); opening no file raises FileNotFoundError
RetrieverLoadMetadata ==
    /\ rt_pc = "load_metadata"
    /\ IF chunk_metadata_file.exists
         THEN /\ self_metadata' = Value(chunk_metadata_file.content)
              /\ rt_pc' = "load_model"
         ELSE /\ rt_pc' = "FileNotFoundError"
              /\ self_metadata' = self_metadata
    /\ UNCHANGED <<self_index, self_model, call, diskVars>>

\* self.model = SentenceTransformer(EMBEDDING_MODEL_NAME): __init__ returns
RetrieverLoadModel ==
    /\ rt_pc = "load_model"
    /\ self_model' = Value(EMBEDDING_MODEL_NAME)
    /\ rt_pc' = "ready"
    /\ UNCHANGED <<self_index, self_metadata, call, diskVars>>

\* squared Euclidean distance (IndexFlatL2)
L2Sq(u, v) == (u[1] - v[1]) * (u[1] - v[1]) + (u[2] - v[2]) * (u[2] - v[2])

SearchK_Unclamped(top_k, ntotal) == top_k
\* min(top_k, self.index.ntotal)
SearchK(top_k, ntotal) == Min(top_k, ntotal)

\* index.search(q, k) for k > 0: the rows (slot, distance) of the nearest
\* vectors by ascending distance, equal distances in any order, padded with
\* slot -1 when the index holds fewer than k vectors.  A set: one element
\* per order the library may return.
Search(index, q, k) ==
    LET N == Len(index)
        found == Min(k, N)
        d(slot) == L2Sq(index[slot + 1], q)
        orders == {r \in [1..found -> 0..(N - 1)] :
                     /\ \A i, j \in 1..found : i < j =>
                           (r[i] # r[j] /\ d(r[i]) <= d(r[j]))
                     /\ \A slot \in 0..(N - 1) :
                           (\A i \in 1..found : r[i] # slot) =>
                              (\A i \in 1..found : d(r[i]) <= d(slot))}
    IN  {[j \in 1..k |-> IF j <= found THEN <<r[j], d(r[j])>>
                         ELSE <<-1, "3.4028235e+38">>] : r \in orders}

\* index.search(q, 0): builds of the library before the k > 0 check return
\* no rows, builds with it raise
SearchOutcomes(k) == IF k > 0 THEN {"returned"} ELSE {"returned", "AssertionError"}

Results_StopAtMiss(found, metadata) ==
    LET hit(e) == Str(e[1]) \in DOMAIN metadata
        n == IF \A j \in 1..Len(found) : hit(found[j]) THEN Len(found)
             ELSE (CHOOSE j \in 1..Len(found) :
                      ~hit(found[j]) /\ \A i \in 1..(j - 1) : hit(found[i])) - 1
    IN  [j \in 1..n |->
            LET chunk_meta == metadata[Str(found[j][1])]
            IN  [text |-> chunk_meta.text, chunk_id |-> chunk_meta.chunk_id,
                 original_index |-> chunk_meta.original_index,
                 created_at |-> chunk_meta.created_at,
                 modified_at |-> chunk_meta.modified_at,
                 distance |-> found[j][2]]]
\* for idx, distance in zip(indices[0], distances[0]):
\*     chunk_meta = self.metadata.get(str(idx)); if chunk_meta: append
Results(found, metadata) ==
    LET kept == SelectSeq(found, LAMBDA e : Str(e[1]) \in DOMAIN metadata)
    IN  [j \in 1..Len(kept) |->
            LET chunk_meta == metadata[Str(kept[j][1])]
            IN  [text |-> chunk_meta.text, chunk_id |-> chunk_meta.chunk_id,
                 original_index |-> chunk_meta.original_index,
                 created_at |-> chunk_meta.created_at,
                 modified_at |-> chunk_meta.modified_at,
                 distance |-> kept[j][2]]]

\* self.retrieve(query, top_k): every way the call can end
RetrieveCalls(query, top_k) ==
    LET index == self_index.value
        k == SearchK(top_k, Len(index))
        raised == {[outcome |-> o, k |-> k, searched |-> << >>, results |-> << >>] :
                     o \in SearchOutcomes(k) \ {"returned"}}
        returned == {[outcome |-> "returned", k |-> k, searched |-> found,
                      results |-> Results(found, self_metadata.value)] :
                        found \in Search(index, Encode(query), k)}
    IN  raised \cup returned

\* Retriever.retrieve(query, top_k)
Retrieve ==
    /\ rt_pc = "ready"
    /\ call = NoCall
    /\ \E query \in Queries, top_k \in 1..MaxTopK :
         \E c \in RetrieveCalls(query, top_k) :
            call' = [op |-> "retrieve", query |-> query, top_k |-> top_k,
                     outcome |-> c.outcome, k |-> c.k, searched |-> c.searched,
                     results |-> c.results, generation_called |-> FALSE,
                     response |-> None]
    /\ UNCHANGED <<self_index, self_metadata, self_model, rt_pc, diskVars>>

\* RAGSystem.query(user_query, mode, top_k): retrieve outside the try (an
\* error of retrieve propagates), the sentinel for no chunks, otherwise the
\* prompt of the mode's template sent to the generation service, whose
\* answer or error message is the response
Query ==
    /\ rt_pc = "ready"
    /\ call = NoCall
    /\ \E query \in Queries, top_k \in 1..MaxTopK :
         \E c \in RetrieveCalls(query, top_k) :
           \E generated \in {"response.text", "Error generating response"} :
              call' = [op |-> "query", query |-> query, top_k |-> top_k,
                       outcome |-> c.outcome, k |-> c.k, searched |-> c.searched,
                       results |-> c.results,
                       generation_called |->
                           (c.outcome = "returned" /\ c.results # << >>),
                       response |->
                           IF c.outcome # "returned" THEN None
                           ELSE IF c.results = << >> THEN "No relevant notes found."
                           ELSE generated]
    /\ UNCHANGED <<self_index, self_metadata, self_model, rt_pc, diskVars>>

\* the caller has consumed the result of the last call
CallReturns ==
    /\ rt_pc = "ready"
    /\ call # NoCall
    /\ call' = NoCall
    /\ UNCHANGED <<self_index, self_metadata, self_model, rt_pc, diskVars>>

(***************************************************************************)
(* normalize_whitespace applied to a text and again to its result          *)
(***************************************************************************)
MaxNormLen == 5      \* longest text drawn for normalize_whitespace

NormChars == {"a"} \cup Whitespace
NormTexts == UNION {[1..n -> NormChars] : n \in 0..MaxNormLen} \cup {Missing}

\* result = normalize_whitespace(text)
NormalizeOnce ==
    /\ nw_pc = "call"
    /\ nw_once' = normalize_whitespace(nw_text)
    /\ nw_pc' = "again"
    /\ UNCHANGED <<nw_text, nw_twice>>

\* normalize_whitespace(result)
NormalizeTwice ==
    /\ nw_pc = "again"
    /\ nw_twice' = normalize_whitespace(nw_once)
    /\ nw_pc' = "done"
    /\ UNCHANGED <<nw_text, nw_once>>

NormIdle ==
    /\ nw_text = << >> /\ nw_once = << >> /\ nw_twice = << >> /\ nw_pc = "idle"

ChunkIdle ==
    /\ text = << >> /\ chunk_size = 0 /\ overlap = 0
    /\ start = 0 /\ chunks = << >> /\ ct_pc = "idle"
NotesIdle ==
    /\ csv = NoFile /\ df = << >> /\ row = 0 /\ note_chunks = << >>
    /\ chunk_idx = 0 /\ chunked_data = << >> /\ chunk_id = 0 /\ cn_pc = "idle"
DiskIdle ==
    /\ chunked_notes_file = NoFile /\ faiss_index_file = NoFile
    /\ chunk_metadata_file = NoFile
BuildIdle ==
    /\ ge_chunks = << >> /\ ge_i = 0 /\ embeddings_list = << >>
    /\ ge_index = None /\ ge_metadata = None /\ ge_pc = "idle"
RetrIdle ==
    /\ self_index = Unset /\ self_metadata = Unset /\ self_model = Unset
    /\ rt_pc = "idle" /\ call = NoCall

InitChunk ==
    /\ \/ /\ text \in Texts
          /\ chunk_size \in 1..MaxChunkSize
          /\ overlap \in 0..MaxOverlap
       \/ /\ text = LongText(ExampleLen)
          /\ chunk_size = CHUNK_SIZE
          /\ overlap = CHUNK_OVERLAP
    /\ start = 0 /\ chunks = << >> /\ ct_pc = "call"
    /\ NotesIdle /\ DiskIdle /\ BuildIdle /\ RetrIdle /\ NormIdle

NextChunk ==
    \/ ChunkTextCall /\ UNCHANGED <<notesVars, diskVars, buildVars, retrVars, normVars>>
    \/ ChunkTextLoop /\ UNCHANGED <<notesVars, diskVars, buildVars, retrVars, normVars>>

InitNotes ==
    /\ csv \in {File(rows) : rows \in RowSeqs} \cup {NoFile}
    /\ df = << >> /\ row = 0 /\ note_chunks = << >> /\ chunk_idx = 0
    /\ chunked_data = << >> /\ chunk_id = 0 /\ cn_pc = "load"
    /\ ChunkIdle /\ DiskIdle /\ BuildIdle /\ RetrIdle /\ NormIdle

NextNotes ==
    \/ ChunkNotesLoad /\ UNCHANGED <<chunkVars, faiss_index_file, chunk_metadata_file, buildVars, retrVars, normVars>>
    \/ ChunkNotesRow /\ UNCHANGED <<chunkVars, faiss_index_file, chunk_metadata_file, buildVars, retrVars, normVars>>
    \/ ChunkNotesAppend /\ UNCHANGED <<chunkVars, faiss_index_file, chunk_metadata_file, buildVars, retrVars, normVars>>
    \/ ChunkNotesSave /\ UNCHANGED <<chunkVars, faiss_index_file, chunk_metadata_file, buildVars, retrVars, normVars>>

InitBuild ==
    /\ chunked_notes_file \in
          {File(ChunkList(n, v)) : n \in 0..MaxChunks, v \in 0..1} \cup {NoFile}
    /\ faiss_index_file = NoFile /\ chunk_metadata_file = NoFile
    /\ ge_chunks = << >> /\ ge_i = 0 /\ embeddings_list = << >>
    /\ ge_index = None /\ ge_metadata = None /\ ge_pc = "load"
    /\ ChunkIdle /\ NotesIdle /\ RetrIdle /\ NormIdle

NextBuild ==
    \/ GenerateLoad /\ UNCHANGED <<chunkVars, notesVars, retrVars, normVars>>
    \/ GenerateEncodeBatch /\ UNCHANGED <<chunkVars, notesVars, retrVars, normVars>>
    \/ GenerateBuildIndex /\ UNCHANGED <<chunkVars, notesVars, retrVars, normVars>>
    \/ GenerateWriteIndex /\ UNCHANGED <<chunkVars, notesVars, retrVars, normVars>>
    \/ GenerateWriteMetadata /\ UNCHANGED <<chunkVars, notesVars, retrVars, normVars>>

SpecBuild == InitBuild /\ [][NextBuild]_vars

InitRetrieve ==
    /\ chunked_notes_file = NoFile
    /\ faiss_index_file \in {File(c) : c \in IndexContents} \cup {NoFile}
    /\ chunk_metadata_file \in {File(c) : c \in MetadataContents} \cup {NoFile}
    /\ self_index = Unset /\ self_metadata = Unset /\ self_model = Unset
    /\ rt_pc = "init" /\ call = NoCall
    /\ ChunkIdle /\ NotesIdle /\ BuildIdle /\ NormIdle

NextRetrieve ==
    \/ RetrieverCheckIndex /\ UNCHANGED <<chunkVars, notesVars, buildVars, normVars>>
    \/ RetrieverCheckMetadata /\ UNCHANGED <<chunkVars, notesVars, buildVars, normVars>>
    \/ RetrieverLoadIndex /\ UNCHANGED <<chunkVars, notesVars, buildVars, normVars>>
    \/ RetrieverLoadMetadata /\ UNCHANGED <<chunkVars, notesVars, buildVars, normVars>>
    \/ RetrieverLoadModel /\ UNCHANGED <<chunkVars, notesVars, buildVars, normVars>>
    \/ Retrieve /\ UNCHANGED <<chunkVars, notesVars, buildVars, normVars>>
    \/ Query /\ UNCHANGED <<chunkVars, notesVars, buildVars, normVars>>
    \/ CallReturns /\ UNCHANGED <<chunkVars, notesVars, buildVars, normVars>>

SpecRetrieve == InitRetrieve /\ [][NextRetrieve]_vars

(***************************************************************************)
(* Builds and Retriever constructions one after another on the same files  *)
(***************************************************************************)
MaxBuildChunks == 2  \* most chunks of a chunk list in a sequence of builds

BuildRunning == ge_pc \in {"load", "encode", "write_index", "write_metadata"}
RetrieverConstructing ==
    rt_pc \in {"init", "check_metadata", "load_index", "load_metadata", "load_model"}

\* a new pipeline run: chunk_notes has written a chunk list and
\* generate_embeddings is called on it
BuildStart ==
    /\ ~BuildRunning /\ ~RetrieverConstructing
    /\ \E n \in 1..MaxBuildChunks, v \in 0..1 :
          chunked_notes_file' = File(ChunkList(n, v))
    /\ ge_chunks' = << >> /\ ge_i' = 0 /\ embeddings_list' = << >>
    /\ ge_index' = None /\ ge_metadata' = None /\ ge_pc' = "load"
    /\ UNCHANGED <<faiss_index_file, chunk_metadata_file>>

\* the run is interrupted between two of its steps (an exception, a kill)
GenerateAbort ==
    /\ BuildRunning
    /\ ge_pc' = "aborted"
    /\ UNCHANGED <<ge_chunks, ge_i, embeddings_list, ge_index, ge_metadata, diskVars>>

\* retriever = Retriever(), while no build is running
RetrieverNew ==
    /\ ~BuildRunning /\ ~RetrieverConstructing
    /\ self_index' = Unset /\ self_metadata' = Unset /\ self_model' = Unset
    /\ rt_pc' = "init"
    /\ UNCHANGED <<call, diskVars>>

InitPipeline ==
    /\ ChunkIdle /\ NotesIdle /\ DiskIdle /\ BuildIdle /\ RetrIdle /\ NormIdle

NextPipeline ==
    \/ BuildStart /\ UNCHANGED <<chunkVars, notesVars, retrVars, normVars>>
    \/ GenerateLoad /\ UNCHANGED <<chunkVars, notesVars, retrVars, normVars>>
    \/ GenerateEncodeBatch /\ UNCHANGED <<chunkVars, notesVars, retrVars, normVars>>
    \/ GenerateBuildIndex /\ UNCHANGED <<chunkVars, notesVars, retrVars, normVars>>
    \/ GenerateWriteIndex /\ UNCHANGED <<chunkVars, notesVars, retrVars, normVars>>
    \/ GenerateWriteMetadata /\ UNCHANGED <<chunkVars, notesVars, retrVars, normVars>>
    \/ GenerateAbort /\ UNCHANGED <<chunkVars, notesVars, retrVars, normVars>>
    \/ RetrieverNew /\ UNCHANGED <<chunkVars, notesVars, buildVars, normVars>>
    \/ RetrieverCheckIndex /\ UNCHANGED <<chunkVars, notesVars, buildVars, normVars>>
    \/ RetrieverCheckMetadata /\ UNCHANGED <<chunkVars, notesVars, buildVars, normVars>>
    \/ RetrieverLoadIndex /\ UNCHANGED <<chunkVars, notesVars, buildVars, normVars>>
    \/ RetrieverLoadMetadata /\ UNCHANGED <<chunkVars, notesVars, buildVars, normVars>>
    \/ RetrieverLoadModel /\ UNCHANGED <<chunkVars, notesVars, buildVars, normVars>>

SpecPipeline == InitPipeline /\ [][NextPipeline]_vars

InitNormalize ==
    /\ nw_text \in NormTexts
    /\ nw_once = << >> /\ nw_twice = << >> /\ nw_pc = "call"
    /\ ChunkIdle /\ NotesIdle /\ DiskIdle /\ BuildIdle /\ RetrIdle

NextNormalize ==
    \/ NormalizeOnce /\ UNCHANGED <<chunkVars, notesVars, diskVars, buildVars, retrVars>>
    \/ NormalizeTwice /\ UNCHANGED <<chunkVars, notesVars, diskVars, buildVars, retrVars>>

SpecNormalize == InitNormalize /\ [][NextNormalize]_vars

SpecNotes == InitNotes /\ [][NextNotes]_vars

SpecChunk == InitChunk /\ [][NextChunk]_vars
\* chunk_text is a sequential function: a call that can take a step takes it
FairSpecChunk == SpecChunk /\ WF_vars(NextChunk)

(***************************************************************************)
(* Properties of chunk_text                                                *)
(***************************************************************************)
ValidConfig == chunk_size > 0 /\ 0 <= overlap /\ overlap < chunk_size
Step == chunk_size - overlap
CeilDiv(a, b) == (a + b - 1) \div b
ChunkTextDone == ct_pc = "done"

\* c[ov:] of every chunk after the first, the first chunk whole, concatenated
RECURSIVE DropOverlaps(_, _, _)
DropOverlaps(cs, ov, k) ==
    IF k > Len(cs) THEN << >>
    ELSE Slice(cs[k], ov, Len(cs[k])) \o DropOverlaps(cs, ov, k + 1)

Reconstruct(cs, ov) ==
    IF cs = << >> THEN << >> ELSE cs[1] \o DropOverlaps(cs, ov, 2)

\* C2: for a valid configuration, the first chunk followed by every later
\* chunk without its overlap-length prefix is the text again.
C2_Reconstruction ==
    (ChunkTextDone /\ ValidConfig) => Reconstruct(chunks, overlap) = text

\* a run with overlap whose last chunk is shorter than the overlap
C2_Witness ==
    /\ ChunkTextDone /\ ValidConfig /\ overlap >= 1 /\ Len(chunks) >= 3
    /\ Len(chunks[Len(chunks)]) < overlap

\* C3 (as claimed): with overlap >= chunk_size the call is rejected before
\* any chunk is emitted: it never returns chunks and never enters the loop.
C3_InvalidConfigRejected ==
    (overlap >= chunk_size /\ ct_pc # "idle") =>
        (chunks = << >> /\ ct_pc \in {"call", "rejected"})

\* C4 (as claimed): every chunk is at most chunk_size long, every chunk but
\* the last is exactly chunk_size long, and a text that fits is one chunk.
C4_AllButLastFull ==
    (ChunkTextDone /\ ValidConfig) =>
        /\ \A k \in 1..Len(chunks) : Len(chunks[k]) <= chunk_size
        /\ \A k \in 1..(Len(chunks) - 1) : Len(chunks[k]) = chunk_size
        /\ (Len(text) <= chunk_size => chunks = <<text>>)

\* C4 (amended): every chunk is at most chunk_size long; chunk k (from 0) is
\* min(chunk_size, len(text) - k*step) long, so exactly the chunks whose
\* window ends inside the text are full and every chunk whose window runs
\* past the end is shorter (there may be several); a text that fits is one
\* chunk equal to the text.
C4_ChunkLengths ==
    (ChunkTextDone /\ ValidConfig) =>
        /\ \A k \in 1..Len(chunks) :
              /\ Len(chunks[k]) <= chunk_size
              /\ Len(chunks[k]) = Min(chunk_size, Len(text) - (k - 1) * Step)
              /\ ((k - 1) * Step + chunk_size <= Len(text)
                    => Len(chunks[k]) = chunk_size)
        /\ (Len(text) <= chunk_size => chunks = <<text>>)

\* a finished run with two short trailing chunks
C4_Witness ==
    /\ ChunkTextDone /\ ValidConfig /\ Len(chunks) >= 3
    /\ Len(chunks[Len(chunks) - 1]) < chunk_size
    /\ Len(chunks[Len(chunks)]) < Len(chunks[Len(chunks) - 1])

\* C10: for a valid configuration the call terminates, every iteration moves
\* the window start forward by exactly chunk_size - overlap, and a text
\* longer than chunk_size gives one chunk per start 0, step, 2*step, ...
\* below len(text): ceil(len(text) / step) chunks, 22 for the long example.
C10_Termination ==
    /\ (ValidConfig /\ ct_pc = "call") ~> ChunkTextDone
    /\ [][(ValidConfig /\ ct_pc = "loop") =>
             (start' = start + Step /\ start' > start
                /\ Len(chunks') = Len(chunks) + 1)]_vars
    /\ []((ChunkTextDone /\ ValidConfig /\ Len(text) > chunk_size) =>
             /\ Len(chunks) = CeilDiv(Len(text), Step)
             /\ \A k \in 1..Len(chunks) :
                   /\ (k - 1) * Step < Len(text)
                   /\ chunks[k] = Slice(text, (k - 1) * Step,
                                         (k - 1) * Step + chunk_size)
             /\ ((Len(text) = 10000 /\ chunk_size = 512 /\ overlap = 50)
                    => Len(chunks) = 22))

\* the long example chunked to the end with the configured defaults
C10_Witness ==
    /\ ChunkTextDone /\ Len(text) >= 10000
    /\ chunk_size = CHUNK_SIZE /\ overlap = CHUNK_OVERLAP
    /\ Len(chunks) = 22

(***************************************************************************)
(* Properties of chunk_notes                                               *)
(***************************************************************************)
\* the entries of the chunk list that come from the note labelled i
ChunksOfNote(i) == {j \in 1..Len(chunked_data) : chunked_data[j].original_index = i}
\* the rows of df fully chunked so far
RowsChunked == IF cn_pc = "chunks" /\ chunk_idx < Len(note_chunks) THEN row - 1 ELSE row

\* C5: chunk_id is the position in the output list (0, 1, 2, ...); the
\* chunks of one note are contiguous and notes come in processing order;
\* chunk_index is the chunk's position among its note's chunks, and
\* total_chunks is the number of chunks produced from its note.
C5_ChunkIdentity ==
    /\ \A j \in 1..Len(chunked_data) : chunked_data[j].chunk_id = j - 1
    /\ \A j, k \in 1..Len(chunked_data) :
          j < k => chunked_data[j].original_index <= chunked_data[k].original_index
    /\ \A j \in 1..Len(chunked_data) :
          LET c == chunked_data[j]
              before == {k \in ChunksOfNote(c.original_index) : k < j}
          IN  c.chunk_index = Cardinality(before)
    /\ \A r \in 1..RowsChunked :
          LET mine == ChunksOfNote(df[r].idx)
              expect == ChunkText(df[r].text_clean, CHUNK_SIZE, CHUNK_OVERLAP)
          IN  /\ Cardinality(mine) = Len(expect)
              /\ \A j \in mine :
                    /\ chunked_data[j].total_chunks = Cardinality(mine)
                    /\ chunked_data[j].text = expect[chunked_data[j].chunk_index + 1]
    /\ (cn_pc = "done" =>
          /\ RowsChunked = Len(df)
          /\ chunked_notes_file = File(chunked_data)
          /\ \A j \in 1..Len(chunked_data) :
                \E r \in 1..Len(df) : df[r].idx = chunked_data[j].original_index)

\* a finished run over a file with a dropped row before a note of three
\* chunks and a note of two chunks
C5_Witness ==
    /\ cn_pc = "done" /\ Len(df) = 2 /\ Len(csv.content) = 3
    /\ df[1].idx = 1
    /\ Cardinality(ChunksOfNote(1)) = 3
    /\ Cardinality(ChunksOfNote(2)) = 2
    /\ Len(chunked_data) = 5

(***************************************************************************)
(* Properties of generate_embeddings                                       *)
(***************************************************************************)
\* C1: after a completed run over N >= 1 chunks the index holds N vectors,
\* the metadata has exactly the keys "0".."N-1", the vector at slot i is the
\* embedding of chunks[i].text and the record at key str(i) has chunks[i]'s
\* chunk_id (and its text and provenance).
C1_SlotAlignment ==
    (ge_pc = "done" /\ Len(ge_chunks) >= 1) =>
        LET N == Len(ge_chunks)
            index == faiss_index_file.content
            metadata == chunk_metadata_file.content
        IN  /\ faiss_index_file.exists /\ chunk_metadata_file.exists
            /\ Len(index) = N
            /\ DOMAIN metadata = {ToString(i) : i \in 0..(N - 1)}
            /\ \A i \in 0..(N - 1) :
                  /\ index[i + 1] = Encode(ge_chunks[i + 1].text)
                  /\ metadata[ToString(i)].chunk_id = ge_chunks[i + 1].chunk_id
                  /\ metadata[ToString(i)].text = ge_chunks[i + 1].text
                  /\ metadata[ToString(i)].original_index
                        = ge_chunks[i + 1].original_index

\* a completed run over more than two batches, the last one partial
C1_Witness ==
    /\ ge_pc = "done"
    /\ Len(ge_chunks) > 2 * batch_size
    /\ Len(ge_chunks) % batch_size # 0
    /\ Len(embeddings_list) = 3

(***************************************************************************)
(* Properties of Retriever and RAGSystem.query                             *)
(***************************************************************************)
RetrieveCalled == call.op = "retrieve"
Ntotal == Len(self_index.value)
HasRecord(slot) == ToString(slot) \in DOMAIN self_metadata.value

\* C6: when the search returns slots, retrieve raises nothing; a slot without
\* a metadata record drops that one result only; every slot with a record
\* gives one result with the record's fields and the slot's distance; the
\* results keep the search's ascending-distance order.
C6_PartialLookupMiss ==
    (RetrieveCalled /\ Ntotal >= 1) =>
        LET kept == SelectSeq(call.searched, LAMBDA e : HasRecord(e[1]))
        IN  /\ call.outcome = "returned"
            /\ Len(call.searched) >= 1
            /\ Len(call.results) = Len(kept)
            /\ \A j \in 1..Len(kept) :
                  LET rec == self_metadata.value[ToString(kept[j][1])]
                      res == call.results[j]
                  IN  /\ res.text = rec.text
                      /\ res.chunk_id = rec.chunk_id
                      /\ res.original_index = rec.original_index
                      /\ res.created_at = rec.created_at
                      /\ res.modified_at = rec.modified_at
                      /\ res.distance = kept[j][2]
            /\ \A i, j \in 1..Len(call.results) :
                  i < j => call.results[i].distance <= call.results[j].distance

\* a retrieve whose second nearest slot has no record while the nearest and
\* the third nearest have one
C6_Witness ==
    /\ RetrieveCalled /\ Len(call.searched) = 3
    /\ HasRecord(call.searched[1][1])
    /\ ~HasRecord(call.searched[2][1])
    /\ HasRecord(call.searched[3][1])
    /\ Len(call.results) = 2
    /\ call.results[1].distance < call.results[2].distance

\* C7: on an index of N >= 1 vectors with a record for every slot, retrieve
\* searches with k = min(top_k, N) and returns exactly min(top_k, N)
\* results and no error.
C7_KClamping ==
    (RetrieveCalled /\ Ntotal >= 1 /\ \A slot \in 0..(Ntotal - 1) : HasRecord(slot)) =>
        /\ call.outcome = "returned"
        /\ call.k = Min(call.top_k, Ntotal)
        /\ Len(call.searched) = Min(call.top_k, Ntotal)
        /\ Len(call.results) = Min(call.top_k, Ntotal)

\* a retrieve asking for more results than the index has vectors
C7_Witness ==
    /\ RetrieveCalled /\ Ntotal >= 2 /\ call.top_k > Ntotal
    /\ \A slot \in 0..(Ntotal - 1) : HasRecord(slot)
    /\ Len(call.results) = Ntotal

\* C8 (as claimed): on an index of zero vectors retrieve returns an empty
\* sequence and raises nothing, and query returns the sentinel without
\* calling the generation service.
C8_EmptyIndexReturnsEmpty ==
    (call.op \in {"retrieve", "query"} /\ Ntotal = 0) =>
        /\ call.outcome = "returned"
        /\ call.results = << >>
        /\ ~call.generation_called
        /\ (call.op = "query" => call.response = "No relevant notes found.")

\* C9: with the index file or the metadata file absent, construction raises
\* FileNotFoundError before anything is loaded and no instance exists; a
\* call of retrieve finds both the index and the metadata loaded.
C9_AllOrNothing ==
    /\ (~faiss_index_file.exists \/ ~chunk_metadata_file.exists) =>
          /\ rt_pc \in {"init", "check_metadata", "FileNotFoundError"}
          /\ ~self_index.set /\ ~self_metadata.set /\ ~self_model.set
          /\ call = NoCall
    /\ (rt_pc = "check_metadata" => faiss_index_file.exists)
    /\ (rt_pc \notin {"init", "check_metadata", "load_index", "load_metadata",
                       "load_model", "ready"} =>
          /\ rt_pc = "FileNotFoundError"
          /\ ~self_index.set /\ ~self_metadata.set /\ ~self_model.set)
    /\ ((rt_pc = "ready" \/ call # NoCall) =>
          /\ self_index.set /\ self_metadata.set
          /\ self_index.value = faiss_index_file.content
          /\ self_metadata.value = chunk_metadata_file.content)

\* construction refused because only the metadata file is absent
C9_Witness ==
    /\ rt_pc = "FileNotFoundError"
    /\ faiss_index_file.exists /\ ~chunk_metadata_file.exists
    /\ ~self_index.set

(***************************************************************************)
(* The end-to-end chunking example                                         *)
(***************************************************************************)
\* the CSV file holds exactly the notes "a " * 300 and "short note"
ExampleNotes ==
    /\ csv.exists /\ Len(csv.content) = 2
    /\ csv.content[1].text = Repeat(<<"a", " ">>, 300)
    /\ csv.content[2].text = ShortNote
ExampleChunked == cn_pc = "done" /\ ExampleNotes

\* C11 (as claimed): the two notes give 3 chunks with chunk_ids 0, 1, 2; the
\* long note's two chunks are 512 and about 88 characters long (88 give or
\* take a tenth), the short note's chunk is "short note".
C11_SecondChunkAbout88 ==
    ExampleChunked =>
        /\ Len(chunked_data) = 3
        /\ \A j \in 1..3 : chunked_data[j].chunk_id = j - 1
        /\ chunked_data[1].original_index = 0 /\ chunked_data[2].original_index = 0
        /\ Len(chunked_data[1].text) = 512
        /\ Len(chunked_data[2].text) >= 79 /\ Len(chunked_data[2].text) <= 97
        /\ chunked_data[3].original_index = 1
        /\ chunked_data[3].text = ShortNote

\* C11 (amended): the long note normalizes to 599 characters and gives two
\* chunks of 512 and 137 characters (the second starts at 512 - 50 = 462);
\* the short note gives one chunk equal to "short note"; the 3 chunks carry
\* chunk_ids 0, 1, 2 in that order.
C11_EndToEndExample ==
    ExampleChunked =>
        /\ Len(df) = 2
        /\ Len(df[1].text_clean) = 599
        /\ Len(chunked_data) = 3
        /\ \A j \in 1..3 : chunked_data[j].chunk_id = j - 1
        /\ chunked_data[1].original_index = 0 /\ chunked_data[2].original_index = 0
        /\ chunked_data[1].total_chunks = 2 /\ chunked_data[2].total_chunks = 2
        /\ Len(chunked_data[1].text) = 512
        /\ Len(chunked_data[2].text) = 137
        /\ chunked_data[2].text = SubSeq(df[1].text_clean, 463, 599)
        /\ chunked_data[3].original_index = 1
        /\ chunked_data[3].total_chunks = 1
        /\ chunked_data[3].text = ShortNote

\* the example run finished with its three chunks written to the chunk list
C11_Witness ==
    /\ ExampleChunked
    /\ chunked_notes_file.exists
    /\ Len(chunked_notes_file.content) = 3

(***************************************************************************)
(* Properties of normalize_whitespace                                      *)
(***************************************************************************)
\* no whitespace at either end, no two whitespace characters in a row, no
\* whitespace character but the space
Normalized(t) ==
    /\ (t # << >> => ~IsWs(t[1]) /\ ~IsWs(t[Len(t)]))
    /\ \A i \in 1..(Len(t) - 1) : ~(IsWs(t[i]) /\ IsWs(t[i + 1]))
    /\ \A i \in 1..Len(t) : IsWs(t[i]) => t[i] = " "

\* C12: normalizing a normalized text changes nothing, for every text and
\* for a missing one; the output has no leading or trailing whitespace, no
\* two adjacent whitespace characters and no whitespace but the space.
C12_NormalizerIdempotent ==
    /\ (nw_pc \in {"again", "done"} =>
          /\ Normalized(nw_once)
          /\ (nw_text = Missing => nw_once = << >>))
    /\ (nw_pc = "done" => nw_twice = nw_once)

\* a text with whitespace in front and a run of tab and newline inside,
\* normalized twice
C12_Witness ==
    /\ nw_pc = "done"
    /\ nw_text = <<"\n", "a", "\t", "\n", "a">>
    /\ nw_once = <<"a", " ", "a">>
    /\ nw_twice = <<"a", " ", "a">>

(***************************************************************************)
(* Properties of a sequence of builds and Retriever constructions          *)
(***************************************************************************)
\* C13 (as claimed): every Retriever construction that succeeds has loaded
\* an index and a metadata store of one build: as many records as vectors,
\* a record for every slot, and slot i's record describing the chunk whose
\* embedding is at slot i.
C13_LoadedPairConsistent ==
    rt_pc = "ready" =>
        LET index == self_index.value
            metadata == self_metadata.value
        IN  /\ Cardinality(DOMAIN metadata) = Len(index)
            /\ \A i \in 0..(Len(index) - 1) :
                  /\ ToString(i) \in DOMAIN metadata
                  /\ index[i + 1] = Encode(metadata[ToString(i)].text)

====
